---- MODULE Spec2Model ----
(***************************************************************************)
(* Model of the zugspaet pipeline: the import orchestrator                 *)
(* (import_data_to_postgres.py, db_utils.py), the token-bucket rate        *)
(* limiter and save_api_data (fetch_data.py).                              *)
(*                                                                         *)
(* The specifications share the variables:                                 *)
(*   Spec          the import orchestrator in batch mode over a store      *)
(*   SpecBatch     the same over a snapshot root that may hold a           *)
(*                 sub-directory that is not a date folder                 *)
(*   SpecRace      two import runs on one date, each on its own connection *)
(*   SpecConnect   get_db_connection                                       *)
(*   SpecLimiter   RateLimiter.acquire called from several threads         *)
(*   SpecAcquire   the same under fair scheduling, any rate > 0            *)
(*   SpecFetch     one save_api_data call, its limiter included            *)
(*   SpecCycle     one fetch_data cycle over the station list              *)
(*   SpecReconcile process_date_folder's parsing and reconciliation of     *)
(*                 one date folder, up to the data frame it inserts        *)
(*   SpecTrainName the same over stops that differ in their name fields    *)
(*   SpecPermute   the same over plan and change files in any order        *)
(***************************************************************************)
EXTENDS Integers, Sequences, FiniteSets, TLC

\* ---------------------------------------------------------------- bounds
\* calendar dates are 1..NumDates, ordered as the calendar orders them
NumDates == 2
\* database errors (failed statement, lost connection) injected per behaviour
MaxFaults == 1

\* threads calling RateLimiter.acquire
NumThreads == 2
\* RateLimiter(rate, per) is built with rate in 1..MaxRate, per in 1..MaxPer ticks
MaxRate == 2
MaxPer == 2
\* the clock ticks on its own up to MaxTime (sleeps advance it further)
MaxTime == 3
\* calls of acquire made by the threads of SpecLimiter
MaxGrants == 4
\* a fractional rate is rate / den with den in 1..MaxDen
MaxDen == 2
\* save_api_data is called with max_retries in 1..MaxRetries
MaxRetries == 2
\* get_db_connection is called with max_retries in 0..MaxAttempts and
\* retry_delay in 1..MaxDelay seconds
MaxAttempts == 5
MaxDelay == 3
\* time.sleep(1) between attempts, in ticks of the limiter's time.sleep(0.1)
RetryDelay == 10

\* stations in eva_list
NumStations == 2
\* plan files fetched per station and cycle: range(curent_hour, curent_hour + 6)
PlanHours == 6

Dates == 1..NumDates
Stations == 1..NumStations
\* the scheduled import job and a manually triggered import
Runners == {"scheduled", "manual"}
Threads == 1..NumThreads
\* the thread that runs save_api_data
Fetcher == 1

VARIABLES
    \* ---- snapshot store and relational store
    folders,          \* [Dates -> {"none","valid","malformed"}]: the date folder and what parsing it gives
    rows,             \* [Dates -> Nat]: committed bulk inserts of the date's rows in train_data
    marked,           \* committed processed_dates
    deleteXml,        \* os.getenv("DELETE_XML_AFTER_IMPORT") == "true"
    \* ---- the connection of one import_data run (psycopg2, autocommit off)
    conn,             \* "none" | "idle" | "intrans" | "failed" (aborted transaction) | "closed" (lost)
    pendRows,         \* dates whose rows are inserted in the open transaction
    pendMark,         \* dates whose marker is inserted in the open transaction
    \* ---- import_data / process_date_folder
    pc,               \* position in import_data
    queue,            \* date_folders still to iterate
    cur,              \* date_folder of the running process_date_folder call, 0 if none
    processed_dates,  \* the list import_data returns
    \* ---- history of the run, read by the properties only
    listed,           \* the folders the run listed
    attempted,        \* dates handed to process_date_folder, in call order
    faults,           \* database errors injected so far
    faulted,          \* dates of this run on whose own statement a database error was injected
    excDates,         \* dates of this run whose call raised
    excAt,            \* where the running call raised, "" if it did not
    validListed,      \* dates the run listed whose folder parses
    callParsed,       \* did the running call parse the folder
    rowsAtEntry,      \* rows when the running call started
    markedAtEntry,    \* marked when the running call started
    folderAtEntry,    \* folders[cur] when the running call started
    rmFailed,         \* shutil.rmtree raised in the running call
    fetchedAfterMark, \* dates whose folder got snapshots after the date was marked
    \* ---- RateLimiter (time in ticks of the 0.1 s the limiter sleeps)
    rate,             \* self.rate
    per,              \* self.per, in ticks
    tokens,           \* self.tokens, in units of 1/per token (one token is `per` units)
    last_update,      \* self.last_update
    lock,             \* the thread holding self.lock, 0 if free
    now,              \* the clock current_time() reads
    tpc,              \* [Threads -> position in acquire]
    l_now,            \* [Threads -> local `now` of _add_tokens]
    l_new,            \* [Threads -> local `new_tokens` of _add_tokens, in 1/per units]
    l_tok,            \* [Threads -> self.tokens as loaded by `self.tokens -= 1`]
    grants,           \* history: the clock at each return of acquire
    \* ---- one save_api_data call
    spc,              \* position in save_api_data
    max_retries,      \* argument
    skip_if_exists,   \* argument
    attempt,          \* loop variable
    resp,             \* body of the last response: "none" | "xml" | "garbage"
    file,             \* save_path: "absent" | "old" | "empty" | "complete"
    file0,            \* history: save_path when the call started
    gets,             \* history: requests.get calls made
    okGets,           \* history: requests.get calls that passed raise_for_status
    sleeps,           \* history: time.sleep(1) calls made
    \* ---- one fetch_data cycle
    cpc,              \* position in fetch_data: "none" | "fchg" | "plan" | "done" | "raised"
    ceva,             \* index of `eva` in eva_list
    chour,            \* `hour` of the plan loop, counted from curent_hour
    issuedFchg,       \* history: [Stations -> save_api_data calls for the fchg file]
    issuedPlan,       \* history: [Stations -> save_api_data calls for plan files]
    outcome,          \* how the last save_api_data call ended
    written,          \* history: calls that wrote their file completely
    \* ---- one date folder through get_plan_db, get_fchg_db and the merge
    rpc,              \* position in process_date_folder
    planFiles,        \* the folder's plan files, [name |-> content]
    fchgFiles,        \* the folder's fchg files, [name |-> content]
    plan_df,          \* get_plan_db's data frame, a sequence of rows
    fchg_df,          \* get_fchg_db's data frame, [id |-> row]
    df,               \* the data frame handed to bulk_insert_train_data
    rexc,             \* the exception that ended the call, "" if none
    \* ---- the snapshot root and import_data as a whole
    strayDir,         \* xml_dir has a sub-directory whose name is not a date
    runRaised,        \* the last import_data call raised
    \* ---- RateLimiter with a rate that is not a whole number
    rate_den,         \* self.rate is rate / rate_den tokens
    \* ---- one get_db_connection call
    gpc,              \* position: "none" | "connect" | "sleep" | "returned" | "raised"
    g_max,            \* argument max_retries
    g_delay,          \* argument retry_delay
    g_attempt,        \* loop variable
    connects,         \* history: psycopg2.connect calls made
    g_sleeps,         \* history: the durations slept, in call order
    g_conn,           \* the connection returned, 0 if none
    g_msg,            \* the number the raised exception names, 0 if none
    \* ---- two import_data runs on one date, each on its own connection
    rc_pc,            \* [Runners -> position in process_date_folder]
    rc_ins,           \* [Runners -> the run's transaction holds the date's rows]
    rc_mark,          \* [Runners -> the run's transaction holds the date's marker]
    rc_rows,          \* committed bulk inserts of the date
    rc_marked,        \* the date's marker is committed
    rc_passed,        \* history: runs whose guard found the date unmarked
    rc_folder         \* the date's snapshot folder exists

storeVars == <<folders, rows, marked, deleteXml>>
connVars == <<conn, pendRows, pendMark>>
runVars == <<pc, queue, cur, processed_dates>>
histVars == <<listed, attempted, faults, faulted, excDates, excAt, validListed,
              callParsed, rowsAtEntry, markedAtEntry, folderAtEntry, rmFailed,
              fetchedAfterMark>>
importVars == <<storeVars, connVars, runVars, histVars>>

limiterVars == <<rate, per, tokens, last_update, lock, now, tpc, l_now, l_new,
                 l_tok, grants>>
fetchVars == <<spc, max_retries, skip_if_exists, attempt, resp, file, file0, gets,
               okGets, sleeps>>

cycleVars == <<cpc, ceva, chour, issuedFchg, issuedPlan, outcome, written>>
reconVars == <<rpc, planFiles, fchgFiles, plan_df, fchg_df, df, rexc>>
connectVars == <<gpc, g_max, g_delay, g_attempt, connects, g_sleeps, g_conn, g_msg>>
raceVars == <<rc_pc, rc_ins, rc_mark, rc_rows, rc_marked, rc_passed, rc_folder>>
moreVars == <<strayDir, runRaised, rate_den, connectVars, raceVars>>

vars == <<importVars, limiterVars, fetchVars, cycleVars, reconVars, moreVars>>

\* --------------------------------------------------------------- helpers
Range(s) == {s[i] : i \in 1..Len(s)}

MinOf(S) == CHOOSE m \in S : \A x \in S : m <= x

\* sorted(..., key=lambda x: datetime.strptime(x.name, "%Y-%m-%d"))
RECURSIVE SortByDate(_)
SortByDate(S) ==
    IF S = {} THEN <<>> ELSE <<MinOf(S)>> \o SortByDate(S \ {MinOf(S)})

\* a statement can run on the connection: no aborted transaction, not lost
Usable == conn \in {"idle", "intrans"}

CanFault == faults < MaxFaults

\* ------------------------------------------------------------------ Init
\* the orchestrator before its first run; the store is empty
ImportAtRest ==
    /\ rows = [d \in Dates |-> 0]
    /\ marked = {}
    /\ conn = "none"
    /\ pendRows = {}
    /\ pendMark = {}
    /\ pc = "idle"
    /\ queue = <<>>
    /\ cur = 0
    /\ processed_dates = <<>>
    /\ listed = {}
    /\ attempted = <<>>
    /\ faults = 0
    /\ faulted = {}
    /\ excDates = {}
    /\ excAt = ""
    /\ validListed = {}
    /\ callParsed = FALSE
    /\ rowsAtEntry = [d \in Dates |-> 0]
    /\ markedAtEntry = {}
    /\ folderAtEntry = "none"
    /\ rmFailed = FALSE
    /\ fetchedAfterMark = {}

\* RateLimiter.__init__(rate, per), built at clock 0
LimiterInit(r, p) ==
    /\ rate = r
    /\ per = p
    /\ tokens = r * p
    /\ last_update = 0
    /\ lock = 0
    /\ now = 0
    /\ tpc = [t \in Threads |-> "idle"]
    /\ l_now = [t \in Threads |-> 0]
    /\ l_new = [t \in Threads |-> 0]
    /\ l_tok = [t \in Threads |-> 0]
    /\ grants = <<>>

\* no save_api_data call is running
FetchAtRest ==
    /\ spc = "none"
    /\ max_retries = 0
    /\ skip_if_exists = FALSE
    /\ attempt = 0
    /\ resp = "none"
    /\ file = "absent"
    /\ file0 = "absent"
    /\ gets = 0
    /\ okGets = 0
    /\ sleeps = 0

\* no fetch_data cycle is running
CycleAtRest ==
    /\ cpc = "none"
    /\ ceva = 0
    /\ chour = 0
    /\ issuedFchg = [e \in Stations |-> 0]
    /\ issuedPlan = [e \in Stations |-> 0]
    /\ outcome = "none"
    /\ written = 0

\* no date folder is being parsed
ReconAtRest ==
    /\ rpc = "none"
    /\ planFiles = <<>>
    /\ fchgFiles = <<>>
    /\ plan_df = <<>>
    /\ fchg_df = <<>>
    /\ df = <<>>
    /\ rexc = ""

\* no get_db_connection call is running
ConnectAtRest ==
    /\ gpc = "none"
    /\ g_max = 0
    /\ g_delay = 0
    /\ g_attempt = 0
    /\ connects = 0
    /\ g_sleeps = <<>>
    /\ g_conn = 0
    /\ g_msg = 0

\* no second import run
RaceAtRest ==
    /\ rc_pc = [r \in Runners |-> "none"]
    /\ rc_ins = [r \in Runners |-> FALSE]
    /\ rc_mark = [r \in Runners |-> FALSE]
    /\ rc_rows = 0
    /\ rc_marked = FALSE
    /\ rc_passed = {}
    /\ rc_folder = FALSE

\* a snapshot root of date folders only, a limiter with a whole rate
MoreAtRest ==
    /\ strayDir = FALSE
    /\ runRaised = FALSE
    /\ rate_den = 1
    /\ ConnectAtRest
    /\ RaceAtRest

\* the snapshot root holds any folders; nothing is imported yet
Init ==
    /\ folders \in [Dates -> {"none", "valid", "malformed"}]
    /\ deleteXml \in BOOLEAN
    /\ ImportAtRest
    /\ LimiterInit(1, 1)
    /\ FetchAtRest
    /\ CycleAtRest
    /\ ReconAtRest
    /\ MoreAtRest

\* ------------------------------------------------- the fetch side, abstract
\* A fetch cycle between two import runs leaves snapshots in the date's folder
\* (fetch_data creates the folder and writes files into it).
FetchSnapshots(d, c) ==
    /\ UNCHANGED <<limiterVars, fetchVars, cycleVars, reconVars, moreVars>>
    /\ pc = "idle"
    /\ folders' = [folders EXCEPT ![d] = c]
    /\ fetchedAfterMark' = IF d \in marked THEN fetchedAfterMark \cup {d}
                           ELSE fetchedAfterMark
    /\ UNCHANGED <<rows, marked, deleteXml, connVars, runVars>>
    /\ UNCHANGED <<listed, attempted, faults, faulted, excDates, excAt, validListed,
                   callParsed, rowsAtEntry, markedAtEntry, folderAtEntry, rmFailed>>

\* ------------------------------------------------------------ import_data
\* conn = get_db_connection(); date_folders = sorted(...)
ImportStart ==
    /\ UNCHANGED <<limiterVars, fetchVars, cycleVars, reconVars>>
    /\ UNCHANGED <<strayDir, rate_den, connectVars, raceVars>>
    /\ pc = "idle"
    /\ pendRows' = {}
    /\ pendMark' = {}
    /\ listed' = {d \in Dates : folders[d] # "none"}
    /\ IF strayDir
         THEN \* sorted(..., key=strptime) raises ValueError outside the
              \* per-date try; finally: conn.close()
              /\ runRaised' = TRUE
              /\ conn' = "none"
              /\ queue' = <<>>
              /\ pc' = "idle"
         ELSE /\ runRaised' = FALSE
              /\ conn' = "idle"
              /\ queue' = SortByDate(listed')
              /\ pc' = "loop"
    /\ cur' = 0
    /\ processed_dates' = <<>>
    /\ attempted' = <<>>
    /\ faulted' = {}
    /\ excDates' = {}
    /\ excAt' = ""
    /\ validListed' = {d \in Dates : folders[d] = "valid"}
    /\ UNCHANGED <<storeVars, faults, callParsed, rowsAtEntry, markedAtEntry,
                   folderAtEntry, rmFailed, fetchedAfterMark>>

\* for date_folder in date_folders: try: process_date_folder(...)
LoopNext ==
    /\ UNCHANGED <<limiterVars, fetchVars, cycleVars, reconVars, moreVars>>
    /\ pc = "loop"
    /\ queue # <<>>
    /\ cur' = Head(queue)
    /\ queue' = Tail(queue)
    /\ attempted' = Append(attempted, Head(queue))
    /\ pc' = "guard"
    /\ excAt' = ""
    /\ callParsed' = FALSE
    /\ rowsAtEntry' = rows
    /\ markedAtEntry' = marked
    /\ folderAtEntry' = folders[Head(queue)]
    /\ rmFailed' = FALSE
    /\ UNCHANGED <<storeVars, connVars, processed_dates, listed, faults, faulted,
                   excDates, validListed, fetchedAfterMark>>

\* the loop is exhausted: finally: conn.close(); return processed_dates
ConnClose ==
    /\ UNCHANGED <<limiterVars, fetchVars, cycleVars, reconVars, moreVars>>
    /\ pc = "loop"
    /\ queue = <<>>
    /\ conn' = "none"
    /\ pendRows' = {}
    /\ pendMark' = {}
    /\ pc' = "idle"
    /\ cur' = 0
    /\ UNCHANGED <<storeVars, queue, processed_dates, histVars>>

\* The call raised at `where`: control goes to the except clause of the loop.
Raise(where) ==
    /\ pc' = "except"
    /\ excAt' = where
    /\ excDates' = excDates \cup {cur}

\* a statement fails in the server: psycopg2 raises and the transaction stays
\* aborted until a rollback, which import_data never issues
StatementError(where) ==
    /\ Usable
    /\ CanFault
    /\ conn' = "failed"
    /\ pendRows' = {}
    /\ pendMark' = {}
    /\ faults' = faults + 1
    /\ faulted' = faulted \cup {cur}
    /\ Raise(where)

\* a statement on a connection whose transaction is aborted, or that is lost,
\* raises (InFailedSqlTransaction, InterfaceError) and changes nothing
LeftoverError(where) ==
    /\ ~Usable
    /\ UNCHANGED <<connVars, faults, faulted>>
    /\ Raise(where)

\* conn.commit() fails: the connection is lost before the commit takes effect
CommitError(where) ==
    /\ Usable
    /\ CanFault
    /\ conn' = "closed"
    /\ pendRows' = {}
    /\ pendMark' = {}
    /\ faults' = faults + 1
    /\ faulted' = faulted \cup {cur}
    /\ Raise(where)

callFrame == <<callParsed, rowsAtEntry, markedAtEntry, folderAtEntry, rmFailed>>

\* a guard that never finds the marker
IsDateProcessedNoGuard ==
    /\ UNCHANGED <<limiterVars, fetchVars, cycleVars, reconVars, moreVars>>
    /\ pc = "guard"
    /\ \/ /\ Usable
          /\ conn' = "intrans"
          /\ pc' = "parse"
          /\ UNCHANGED <<pendRows, pendMark, faults, faulted, excDates, excAt>>
       \/ StatementError("guard")
       \/ LeftoverError("guard")
    /\ UNCHANGED <<storeVars, queue, cur, processed_dates, listed, attempted,
                   validListed, callFrame, fetchedAfterMark>>

\* if is_date_processed(conn, date_str): ... (the SELECT opens a transaction)
IsDateProcessed ==
    /\ UNCHANGED <<limiterVars, fetchVars, cycleVars, reconVars, moreVars>>
    /\ pc = "guard"
    /\ \/ /\ Usable
          /\ conn' = "intrans"
          /\ pc' = IF cur \in marked THEN "skip" ELSE "parse"
          /\ UNCHANGED <<pendRows, pendMark, faults, faulted, excDates, excAt>>
       \/ StatementError("guard")
       \/ LeftoverError("guard")
    /\ UNCHANGED <<storeVars, queue, cur, processed_dates, listed, attempted,
                   validListed, callFrame, fetchedAfterMark>>

\* get_plan_db, get_fchg_db, pd.merge and the column transformations: they
\* give the date's frame, or raise on a folder that does not parse
ParseAndReconcile ==
    /\ UNCHANGED <<limiterVars, fetchVars, cycleVars, reconVars, moreVars>>
    /\ pc = "parse"
    /\ callParsed' = TRUE
    /\ IF folders[cur] = "valid"
       THEN /\ pc' = "insert"
            /\ UNCHANGED <<excAt, excDates>>
       ELSE Raise("parse")
    /\ UNCHANGED <<storeVars, connVars, queue, cur, processed_dates, listed,
                   attempted, faults, faulted, validListed, rowsAtEntry, markedAtEntry,
                   folderAtEntry, rmFailed, fetchedAfterMark>>

\* if data_df.empty: a frame the transformations produced has at least a row
DfEmpty == folders[cur] # "valid"

\* bulk_insert_train_data: execute_values(cur, "INSERT INTO train_data ...")
BulkInsertExecute ==
    /\ UNCHANGED <<limiterVars, fetchVars, cycleVars, reconVars, moreVars>>
    /\ pc = "insert"
    /\ IF DfEmpty
       THEN /\ pc' = "markExec"
            /\ UNCHANGED <<connVars, faults, faulted, excDates, excAt>>
       ELSE \/ /\ Usable
               /\ conn' = "intrans"
               /\ pendRows' = pendRows \cup {cur}
               /\ pc' = "insertCommit"
               /\ UNCHANGED <<pendMark, faults, faulted, excDates, excAt>>
            \/ StatementError("insertExec")
            \/ LeftoverError("insertExec")
    /\ UNCHANGED <<storeVars, queue, cur, processed_dates, listed, attempted,
                   validListed, callFrame, fetchedAfterMark>>

\* what conn.commit() makes visible: the rows and markers of the transaction
CommittedRows == [d \in Dates |-> IF d \in pendRows THEN rows[d] + 1 ELSE rows[d]]
CommittedMarks == marked \cup pendMark

\* bulk_insert_train_data: conn.commit()
BulkInsertCommit ==
    /\ UNCHANGED <<limiterVars, fetchVars, cycleVars, reconVars, moreVars>>
    /\ pc = "insertCommit"
    /\ \/ /\ Usable
          /\ rows' = CommittedRows
          /\ marked' = CommittedMarks
          /\ conn' = "idle"
          /\ pendRows' = {}
          /\ pendMark' = {}
          /\ pc' = "markExec"
          /\ UNCHANGED <<faults, faulted, excDates, excAt>>
       \/ /\ CommitError("insertCommit")
          /\ UNCHANGED <<rows, marked>>
    /\ UNCHANGED <<folders, deleteXml, queue, cur, processed_dates, listed,
                   attempted, validListed, callFrame, fetchedAfterMark>>

\* mark_date_as_processed: INSERT INTO processed_dates ... ON CONFLICT DO NOTHING
MarkExecute ==
    /\ UNCHANGED <<limiterVars, fetchVars, cycleVars, reconVars, moreVars>>
    /\ pc = "markExec"
    /\ \/ /\ Usable
          /\ conn' = "intrans"
          /\ pendMark' = pendMark \cup {cur}
          /\ pc' = "markCommit"
          /\ UNCHANGED <<pendRows, faults, faulted, excDates, excAt>>
       \/ StatementError("markExec")
       \/ LeftoverError("markExec")
    /\ UNCHANGED <<storeVars, queue, cur, processed_dates, listed, attempted,
                   validListed, callFrame, fetchedAfterMark>>

\* a marker commit whose failure is taken for success
MarkCommitIgnoresError ==
    /\ UNCHANGED <<limiterVars, fetchVars, cycleVars, reconVars, moreVars>>
    /\ pc = "markCommit"
    /\ \/ /\ Usable
          /\ rows' = CommittedRows
          /\ marked' = CommittedMarks
          /\ conn' = "idle"
          /\ pendRows' = {}
          /\ pendMark' = {}
          /\ UNCHANGED <<faults, faulted>>
       \/ /\ Usable
          /\ CanFault
          /\ conn' = "closed"
          /\ pendRows' = {}
          /\ pendMark' = {}
          /\ faults' = faults + 1
          /\ faulted' = faulted \cup {cur}
          /\ UNCHANGED <<rows, marked>>
    /\ pc' = "cleanup"
    /\ UNCHANGED <<folders, deleteXml, queue, cur, processed_dates, listed,
                   attempted, excDates, excAt, validListed, callFrame,
                   fetchedAfterMark>>

\* mark_date_as_processed: conn.commit()
MarkCommit ==
    /\ UNCHANGED <<limiterVars, fetchVars, cycleVars, reconVars, moreVars>>
    /\ pc = "markCommit"
    /\ \/ /\ Usable
          /\ rows' = CommittedRows
          /\ marked' = CommittedMarks
          /\ conn' = "idle"
          /\ pendRows' = {}
          /\ pendMark' = {}
          /\ pc' = "cleanup"
          /\ UNCHANGED <<faults, faulted, excDates, excAt>>
       \/ /\ CommitError("markCommit")
          /\ UNCHANGED <<rows, marked>>
    /\ UNCHANGED <<folders, deleteXml, queue, cur, processed_dates, listed,
                   attempted, validListed, callFrame, fetchedAfterMark>>

\* a delete_date_folder without the try/except around shutil.rmtree
DeleteDateFolderReraises ==
    /\ UNCHANGED <<limiterVars, fetchVars, cycleVars, reconVars, moreVars>>
    /\ pc \in {"skip", "cleanup"}
    /\ \/ /\ ~deleteXml
          /\ pc' = "return"
          /\ UNCHANGED <<folders, rmFailed, excDates, excAt>>
       \/ /\ deleteXml
          /\ folders' = [folders EXCEPT ![cur] = "none"]
          /\ pc' = "return"
          /\ UNCHANGED <<rmFailed, excDates, excAt>>
       \/ /\ deleteXml
          /\ rmFailed' = TRUE
          /\ \E left \in {folders[cur], "malformed"} :
                folders' = [folders EXCEPT ![cur] = left]
          /\ Raise("cleanup")
    /\ UNCHANGED <<rows, marked, deleteXml, connVars, queue, cur, processed_dates,
                   listed, attempted, faults, faulted, validListed,
                   callParsed, rowsAtEntry, markedAtEntry, folderAtEntry,
                   fetchedAfterMark>>

\* delete_date_folder: shutil.rmtree inside try/except Exception, when enabled.
\* An rmtree that raises leaves the folder, with all of its files or, having
\* removed some, with a rest that may no longer parse.
DeleteDateFolder ==
    /\ UNCHANGED <<limiterVars, fetchVars, cycleVars, reconVars, moreVars>>
    /\ pc \in {"skip", "cleanup"}
    /\ \/ /\ ~deleteXml
          /\ UNCHANGED <<folders, rmFailed>>
       \/ /\ deleteXml
          /\ folders' = [folders EXCEPT ![cur] = "none"]
          /\ UNCHANGED rmFailed
       \/ /\ deleteXml
          /\ rmFailed' = TRUE
          /\ \E left \in {folders[cur], "malformed"} :
                folders' = [folders EXCEPT ![cur] = left]
    /\ pc' = "return"
    /\ UNCHANGED <<rows, marked, deleteXml, connVars, queue, cur, processed_dates,
                   listed, attempted, faults, faulted, excDates, excAt, validListed,
                   callParsed, rowsAtEntry, markedAtEntry, folderAtEntry,
                   fetchedAfterMark>>

\* process_date_folder returned: processed_dates.append(date_folder.name)
AppendProcessed ==
    /\ UNCHANGED <<limiterVars, fetchVars, cycleVars, reconVars, moreVars>>
    /\ pc = "return"
    /\ processed_dates' = Append(processed_dates, cur)
    /\ pc' = "loop"
    /\ UNCHANGED <<storeVars, connVars, queue, cur, histVars>>

\* a handler that gives the run up instead of going on with the next folder
ExceptHandlerStops ==
    /\ UNCHANGED <<limiterVars, fetchVars, cycleVars, reconVars, moreVars>>
    /\ pc = "except"
    /\ pc' = "loop"
    /\ queue' = <<>>
    /\ UNCHANGED <<storeVars, connVars, cur, processed_dates, histVars>>

\* except Exception as e: print(...); continue
ExceptHandler ==
    /\ UNCHANGED <<limiterVars, fetchVars, cycleVars, reconVars, moreVars>>
    /\ pc = "except"
    /\ pc' = "loop"
    /\ UNCHANGED <<storeVars, connVars, queue, cur, processed_dates, histVars>>

Next ==
    \/ \E d \in Dates, c \in {"valid", "malformed"} : FetchSnapshots(d, c)
    \/ ImportStart
    \/ LoopNext
    \/ IsDateProcessed
    \/ ParseAndReconcile
    \/ BulkInsertExecute
    \/ BulkInsertCommit
    \/ MarkExecute
    \/ MarkCommit
    \/ DeleteDateFolder
    \/ AppendProcessed
    \/ ExceptHandler
    \/ ConnClose

Spec == Init /\ [][Next]_vars

\* ===================================================== import orchestrator
InsertToMarker == {"insertExec", "insertCommit", "markExec", "markCommit"}

\* C1: when process_date_folder fails at any point after the bulk insert has
\* started and before the marker write has committed, the store shows neither
\* a row of that date nor its marker.
C1_InsertAndMarkerAtomic ==
    (pc = "except" /\ excAt \in InsertToMarker)
        => (rows[cur] = 0 /\ cur \notin marked)

\* C2: over any sequence of sequential import runs, at most one bulk insert
\* of a date's rows is ever committed.
C2_AtMostOneInsertPerDate ==
    \A d \in Dates : rows[d] <= 1

\* the frame of a call on a date that was marked when the call started
SkipFrame ==
    /\ ~callParsed
    /\ rows = rowsAtEntry
    /\ marked = markedAtEntry

\* C3 (as stated): a call on an already marked date whose folder exists parses
\* nothing, inserts nothing, leaves the markers alone and, with deletion
\* enabled, has removed the folder when it returns.
C3_SkipAlwaysRemovesFolder ==
    (pc = "return" /\ cur \in markedAtEntry)
        => /\ SkipFrame
           /\ (deleteXml => folders[cur] = "none")

\* C3 (amended): a call on an already marked date parses nothing, inserts
\* nothing and leaves the markers alone, however it ends; when it returns with
\* deletion enabled the folder is gone unless shutil.rmtree raised, in which
\* case the folder stays; the folder is untouched when deletion is disabled or
\* when the guard query raised.
C3_SkipRemovesFolderUnlessRmtreeFails ==
    (pc \in {"return", "except"} /\ cur \in markedAtEntry)
        => /\ SkipFrame
           /\ (pc = "return" /\ deleteXml /\ ~rmFailed => folders[cur] = "none")
           /\ (rmFailed => folders[cur] # "none")
           /\ (pc = "except" \/ ~deleteXml => folders[cur] = folderAtEntry)

\* C3 witness: a marked date whose folder holds snapshots fetched after the
\* marking is skipped and its folder removed.
C3_Witness ==
    /\ pc = "return"
    /\ cur \in markedAtEntry
    /\ cur \in fetchedAfterMark
    /\ folderAtEntry # "none"
    /\ deleteXml
    /\ folders[cur] = "none"

\* C4: in batch mode the folders are attempted in strictly ascending date
\* order, each listed folder once, and a date that raised leaves every later
\* folder still to be attempted: when the run ends all of them were.
C4_AscendingEachOnce ==
    /\ \A i, j \in 1..Len(attempted) : i < j => attempted[i] < attempted[j]
    /\ Range(attempted) \cap Range(queue) = {}
    /\ pc # "idle" => Range(attempted) \cup Range(queue) = listed
    /\ pc = "idle" => Range(attempted) = listed

\* C4 witness: a run ended in which the first of several dates raised.
C4_Witness ==
    /\ pc = "idle"
    /\ Len(attempted) >= 2
    /\ attempted[1] \in excDates
    /\ attempted[Len(attempted)] \notin excDates

\* C5: a database error on date D leaves none of D's rows visible and D
\* unmarked, and does not fail a later date: a date with valid snapshots and no
\* database error of its own does not raise, and is marked when the run ends.
C5_LaterDatesUnaffected ==
    /\ (pc = "except" /\ cur \in faulted /\ cur \notin markedAtEntry)
           => (rows[cur] = rowsAtEntry[cur] /\ cur \notin marked)
    /\ (pc = "except" /\ cur \notin faulted) => folderAtEntry # "valid"
    /\ (pc = "idle") => \A d \in validListed \ faulted : d \in marked

\* C22: the import removes (or starts to remove) a date's folder only when the
\* date's marker is committed, and no step of the import takes a marker back.
C22_DeleteOnlyMarked ==
    [][\A d \in Dates :
          /\ (pc # "idle" /\ folders'[d] # folders[d]) => d \in marked
          /\ d \in marked => d \in marked']_vars

\* C22 witness: a date imported by this call, marked, and its folder removed.
C22_Witness ==
    /\ pc = "return"
    /\ cur \notin markedAtEntry
    /\ cur \in marked
    /\ folderAtEntry = "valid"
    /\ folders[cur] = "none"

\* C23: after shutil.rmtree raised, process_date_folder returns, the date is
\* marked, its rows are in the store and import_data reports the date; with
\* deletion disabled a running import leaves the date's folder as it found it.
C23_DeleteFailureSwallowed ==
    /\ (rmFailed /\ cur # 0)
           => /\ pc \in {"return", "loop"}
              /\ cur \in marked
              /\ rows[cur] >= 1
              /\ rows[cur] >= rowsAtEntry[cur]
              /\ (pc = "loop" => cur \in Range(processed_dates))
    /\ (~deleteXml /\ cur # 0) => folders[cur] = folderAtEntry

\* C23 witness: a date imported in this call whose folder rmtree failed to
\* remove is in the result.
C23_Witness ==
    /\ rmFailed
    /\ pc = "loop"
    /\ cur \notin markedAtEntry
    /\ folders[cur] # "none"
    /\ cur \in Range(processed_dates)

\* ---------------------------------------- batch mode on any snapshot root
\* XML_DIR and EVA_DIR default to the same directory, so the snapshot root can
\* hold sub-directories that are not date folders.
InitBatch ==
    /\ folders \in [Dates -> {"none", "valid", "malformed"}]
    /\ deleteXml \in BOOLEAN
    /\ ImportAtRest
    /\ LimiterInit(1, 1)
    /\ FetchAtRest
    /\ CycleAtRest
    /\ ReconAtRest
    /\ strayDir \in BOOLEAN
    /\ runRaised = FALSE
    /\ rate_den = 1
    /\ ConnectAtRest
    /\ RaceAtRest

SpecBatch == InitBatch /\ [][Next]_vars

\* C29: in batch mode a sub-directory of the snapshot root whose name is not a
\* date does not stop the run: once the run is over, import_data has not raised
\* and every date folder that was listed has been attempted.
C29_StrayDirDoesNotStop ==
    (strayDir /\ pc = "idle") => (~runRaised /\ Range(attempted) = listed)

\* ============================================================ RateLimiter
\* positions of a thread that holds self.lock
Critical == {"check", "add_now", "add_tokens", "add_stamp", "check2", "sleep",
             "debit_load", "debit_store", "release"}

Min2(a, b) == IF a <= b THEN a ELSE b

\* self.rate is rate / rate_den tokens; self.tokens is kept in units of
\* 1 / (rate_den * per) token, so that a tick refills rate units
OneToken == rate_den * per

\* no limiter that can grant at all sleeps at this clock value; a limiter that
\* gets there has self.tokens at its capacity and no refill changes it
ClockCap == MaxTime + MaxGrants * MaxPer + 1

\* a thread calls rate_limiter.acquire()
Call(t) ==
    /\ tpc[t] = "idle"
    /\ Len(grants) + Cardinality({u \in Threads : tpc[u] # "idle"}) < MaxGrants
    /\ tpc' = [tpc EXCEPT ![t] = "wait"]
    /\ UNCHANGED <<rate, per, tokens, last_update, lock, now, l_now, l_new, l_tok,
                   grants>>
    /\ UNCHANGED <<importVars, fetchVars, cycleVars, reconVars, moreVars>>

\* entering the critical section without taking the lock
LockAcquireUnguarded(t) ==
    /\ tpc[t] = "wait"
    /\ lock' = t
    /\ tpc' = [tpc EXCEPT ![t] = "check"]
    /\ UNCHANGED <<rate, per, tokens, last_update, now, l_now, l_new, l_tok, grants>>
    /\ UNCHANGED <<importVars, fetchVars, cycleVars, reconVars, moreVars>>

\* with self.lock:
LockAcquire(t) ==
    /\ tpc[t] = "wait"
    /\ lock = 0
    /\ lock' = t
    /\ tpc' = [tpc EXCEPT ![t] = "check"]
    /\ UNCHANGED <<rate, per, tokens, last_update, now, l_now, l_new, l_tok, grants>>
    /\ UNCHANGED <<importVars, fetchVars, cycleVars, reconVars, moreVars>>

\* while self.tokens < 1:
WhileCheck(t) ==
    /\ tpc[t] = "check"
    /\ tpc' = [tpc EXCEPT ![t] = IF tokens < OneToken THEN "add_now" ELSE "debit_load"]
    /\ UNCHANGED <<rate, per, tokens, last_update, lock, now, l_now, l_new, l_tok,
                   grants>>
    /\ UNCHANGED <<importVars, fetchVars, cycleVars, reconVars, moreVars>>

\* _add_tokens: now = current_time(); time_passed = now - self.last_update;
\* new_tokens = time_passed * (self.rate / self.per)
AddNow(t) ==
    /\ tpc[t] = "add_now"
    /\ l_now' = [l_now EXCEPT ![t] = now]
    /\ l_new' = [l_new EXCEPT ![t] = (now - last_update) * rate]
    /\ tpc' = [tpc EXCEPT ![t] = "add_tokens"]
    /\ UNCHANGED <<rate, per, tokens, last_update, lock, now, l_tok, grants>>
    /\ UNCHANGED <<importVars, fetchVars, cycleVars, reconVars, moreVars>>

\* a refill that forgets the capacity
AddTokensUncapped(t) ==
    /\ tpc[t] = "add_tokens"
    /\ tokens' = tokens + l_new[t]
    /\ tpc' = [tpc EXCEPT ![t] = "add_stamp"]
    /\ UNCHANGED <<rate, per, last_update, lock, now, l_now, l_new, l_tok, grants>>
    /\ UNCHANGED <<importVars, fetchVars, cycleVars, reconVars, moreVars>>

\* _add_tokens: self.tokens = min(self.rate, self.tokens + new_tokens)
AddTokens(t) ==
    /\ tpc[t] = "add_tokens"
    /\ tokens' = Min2(rate * per, tokens + l_new[t])
    /\ tpc' = [tpc EXCEPT ![t] = "add_stamp"]
    /\ UNCHANGED <<rate, per, last_update, lock, now, l_now, l_new, l_tok, grants>>
    /\ UNCHANGED <<importVars, fetchVars, cycleVars, reconVars, moreVars>>

\* _add_tokens: self.last_update = now
AddStamp(t) ==
    /\ tpc[t] = "add_stamp"
    /\ last_update' = l_now[t]
    /\ tpc' = [tpc EXCEPT ![t] = "check2"]
    /\ UNCHANGED <<rate, per, tokens, lock, now, l_now, l_new, l_tok, grants>>
    /\ UNCHANGED <<importVars, fetchVars, cycleVars, reconVars, moreVars>>

\* if self.tokens < 1: (else back to the while condition)
IfCheck(t) ==
    /\ tpc[t] = "check2"
    /\ tpc' = [tpc EXCEPT ![t] = IF tokens < OneToken THEN "sleep" ELSE "check"]
    /\ UNCHANGED <<rate, per, tokens, last_update, lock, now, l_now, l_new, l_tok,
                   grants>>
    /\ UNCHANGED <<importVars, fetchVars, cycleVars, reconVars, moreVars>>

\* time.sleep(0.1): one tick passes, the lock stays held
Sleep(t) ==
    /\ tpc[t] = "sleep"
    /\ now' = IF now < ClockCap THEN now + 1 ELSE now
    /\ tpc' = [tpc EXCEPT ![t] = "check"]
    /\ UNCHANGED <<rate, per, tokens, last_update, lock, l_now, l_new, l_tok, grants>>
    /\ UNCHANGED <<importVars, fetchVars, cycleVars, reconVars, moreVars>>

\* self.tokens -= 1, the load
DebitLoad(t) ==
    /\ tpc[t] = "debit_load"
    /\ l_tok' = [l_tok EXCEPT ![t] = tokens]
    /\ tpc' = [tpc EXCEPT ![t] = "debit_store"]
    /\ UNCHANGED <<rate, per, tokens, last_update, lock, now, l_now, l_new, grants>>
    /\ UNCHANGED <<importVars, fetchVars, cycleVars, reconVars, moreVars>>

\* self.tokens -= 1, the store
DebitStore(t) ==
    /\ tpc[t] = "debit_store"
    /\ tokens' = l_tok[t] - OneToken
    /\ grants' = Append(grants, now)
    /\ tpc' = [tpc EXCEPT ![t] = "release"]
    /\ UNCHANGED <<rate, per, last_update, lock, now, l_now, l_new, l_tok>>
    /\ UNCHANGED <<importVars, fetchVars, cycleVars, reconVars, moreVars>>

\* return True: the with block releases self.lock
Return(t) ==
    /\ tpc[t] = "release"
    /\ lock' = IF lock = t THEN 0 ELSE lock
    /\ tpc' = [tpc EXCEPT ![t] = "idle"]
    /\ UNCHANGED <<rate, per, tokens, last_update, now, l_now, l_new, l_tok, grants>>
    /\ UNCHANGED <<importVars, fetchVars, cycleVars, reconVars, moreVars>>

\* the wall clock advances between any two steps
Tick ==
    /\ now < MaxTime
    /\ now' = now + 1
    /\ UNCHANGED <<rate, per, tokens, last_update, lock, tpc, l_now, l_new, l_tok,
                   grants>>
    /\ UNCHANGED <<importVars, fetchVars, cycleVars, reconVars, moreVars>>

\* the steps of acquire() that follow the call
AcquireStep(t) ==
    \/ LockAcquire(t)
    \/ WhileCheck(t)
    \/ AddNow(t)
    \/ AddTokens(t)
    \/ AddStamp(t)
    \/ IfCheck(t)
    \/ Sleep(t)
    \/ DebitLoad(t)
    \/ DebitStore(t)
    \/ Return(t)

InitLimiter ==
    /\ folders = [d \in Dates |-> "none"]
    /\ deleteXml = FALSE
    /\ ImportAtRest
    /\ \E r \in 1..MaxRate, p \in 1..MaxPer : LimiterInit(r, p)
    /\ FetchAtRest
    /\ CycleAtRest
    /\ ReconAtRest
    /\ MoreAtRest

NextLimiter ==
    \/ \E t \in Threads : Call(t)
    \/ \E t \in Threads : AcquireStep(t)
    \/ Tick

SpecLimiter == InitLimiter /\ [][NextLimiter]_vars

\* C6: acquire returns only after observing at least one token and debits
\* exactly one token per return; 0 <= tokens <= rate in every state; the n-th
\* return on a fresh limiter, n <= rate, leaves exactly rate - n tokens.
C6_TokenAccounting ==
    /\ [](0 <= tokens /\ tokens <= rate * per)
    /\ [][Len(grants') = Len(grants) + 1
            => /\ tokens >= per
               /\ tokens' = tokens - per
               /\ (Len(grants') <= rate => tokens' = (rate - Len(grants')) * per)]_vars

\* C6 witness: more than rate acquires returned, the last one after a refill.
C6_Witness ==
    /\ Len(grants) > rate
    /\ last_update > 0
    /\ \E t \in Threads : tpc[t] = "release"

\* C7: in any time window the number of returns of acquire is at most
\* R + t*R/P, t the length of the window (windows from one return to another).
C7_RateBound ==
    \A i, j \in 1..Len(grants) :
        i <= j => (j - i + 1) * per <= rate * per + (grants[j] - grants[i]) * rate

\* C8: refill and debit of one caller are one critical section: at most one
\* thread is between taking and releasing the lock, tokens is never negative,
\* what _add_tokens read of last_update is still current when it writes, and
\* each debit takes one token off the count it observed.
C8_CriticalSection ==
    /\ [](/\ Cardinality({t \in Threads : tpc[t] \in Critical}) <= 1
          /\ \A t \in Threads : tpc[t] \in Critical => lock = t
          /\ tokens >= 0
          /\ \A t \in Threads :
                tpc[t] = "add_tokens" => l_new[t] = (l_now[t] - last_update) * rate
          /\ \A t \in Threads : tpc[t] = "debit_store" => l_tok[t] = tokens)
    /\ [][\A t \in Threads :
            (tpc[t] = "debit_store" /\ tpc'[t] = "release")
                => tokens' = tokens - per]_vars

\* C8 witness: one thread waits for the lock while another, which had to
\* refill, is about to store its debit.
C8_Witness ==
    \E t, u \in Threads :
        /\ tpc[t] = "wait"
        /\ tpc[u] = "debit_store"
        /\ Len(grants) >= rate

\* ------------------------------------------- acquire under fair scheduling
\* any limiter with rate > 0 and per > 0: rate / den tokens per per ticks
InitAcquire ==
    /\ folders = [d \in Dates |-> "none"]
    /\ deleteXml = FALSE
    /\ ImportAtRest
    /\ \E r \in 1..MaxRate, p \in 1..MaxPer : LimiterInit(r, p)
    /\ FetchAtRest
    /\ CycleAtRest
    /\ ReconAtRest
    /\ strayDir = FALSE
    /\ runRaised = FALSE
    /\ rate_den \in 1..MaxDen
    /\ ConnectAtRest
    /\ RaceAtRest

\* every thread inside acquire keeps running (sleeps end, so the clock
\* advances), and a thread waiting for self.lock gets it if it is free again
\* and again
FairAcquire ==
    \A t \in Threads : WF_vars(AcquireStep(t)) /\ SF_vars(LockAcquire(t))

SpecAcquire == InitAcquire /\ [][NextLimiter]_vars /\ FairAcquire

\* C30: every call of acquire eventually returns, for any limiter with
\* rate > 0 and per > 0 and any number of concurrent callers, when the clock
\* advances and the lock is granted fairly.
C30_AcquireReturns ==
    \A t \in Threads : (tpc[t] # "idle") ~> (tpc[t] = "idle")

\* ========================================================== save_api_data
fetchArgs == <<max_retries, skip_if_exists, file0>>
limiterAll == <<rate, per, tokens, last_update, lock, now, tpc, l_now, l_new, l_tok,
                grants>>

\* the skip test with the existence test inverted
SkipIfExistsInverted ==
    /\ spc = "start"
    /\ spc' = IF skip_if_exists /\ file = "absent" THEN "returned" ELSE "attempt"
    /\ UNCHANGED <<fetchArgs, attempt, resp, file, gets, okGets, sleeps>>
    /\ UNCHANGED <<importVars, limiterAll, cycleVars, reconVars, moreVars>>

\* if skip_if_exists and save_path.exists(): return
SkipIfExists ==
    /\ spc = "start"
    /\ spc' = IF skip_if_exists /\ file # "absent" THEN "returned" ELSE "attempt"
    /\ UNCHANGED <<fetchArgs, attempt, resp, file, gets, okGets, sleeps>>
    /\ UNCHANGED <<importVars, limiterAll, cycleVars, reconVars, moreVars>>

\* for attempt in range(max_retries): rate_limiter.acquire(); when the range is
\* exhausted: print("error: Could not retrieve data ...") and return
ForAttempt ==
    /\ spc = "attempt"
    /\ IF attempt < max_retries
       THEN /\ spc' = "acquiring"
            /\ tpc' = [tpc EXCEPT ![Fetcher] = "wait"]
       ELSE /\ spc' = "returned"
            /\ UNCHANGED tpc
    /\ UNCHANGED <<fetchArgs, attempt, resp, file, gets, okGets, sleeps>>
    /\ UNCHANGED <<rate, per, tokens, last_update, lock, now, l_now, l_new, l_tok,
                   grants>>
    /\ UNCHANGED <<importVars, cycleVars, reconVars, moreVars>>

\* response = requests.get(...); response.raise_for_status()
RequestsGet ==
    /\ spc = "acquiring"
    /\ tpc[Fetcher] = "idle"
    /\ gets' = gets + 1
    /\ \/ /\ \E body \in {"xml", "garbage"} : resp' = body
          /\ okGets' = okGets + 1
          /\ spc' = "open"
       \/ /\ resp' = "none"
          /\ spc' = "failed"
          /\ UNCHANGED okGets
    /\ UNCHANGED <<fetchArgs, attempt, file, sleeps>>
    /\ UNCHANGED <<importVars, limiterAll, cycleVars, reconVars, moreVars>>

\* with save_path.open("w") as f: the file is created or truncated
OpenForWrite ==
    /\ spc = "open"
    /\ file' = "empty"
    /\ spc' = "write"
    /\ UNCHANGED <<fetchArgs, attempt, resp, gets, okGets, sleeps>>
    /\ UNCHANGED <<importVars, limiterAll, cycleVars, reconVars, moreVars>>

\* f.write(parseString(response.content).toxml()); return. parseString raises
\* ExpatError on a body that is not XML, which no except clause here catches
ParseAndWrite ==
    /\ spc = "write"
    /\ IF resp = "xml"
       THEN /\ file' = "complete"
            /\ spc' = "returned"
       ELSE /\ spc' = "raised"
            /\ UNCHANGED file
    /\ UNCHANGED <<fetchArgs, attempt, resp, gets, okGets, sleeps>>
    /\ UNCHANGED <<importVars, limiterAll, cycleVars, reconVars, moreVars>>

\* a handler that sleeps after every failed attempt, the last one included
ExceptRequestSleepsAlways ==
    /\ spc = "failed"
    /\ sleeps' = sleeps + 1
    /\ now' = now + RetryDelay
    /\ attempt' = attempt + 1
    /\ spc' = "attempt"
    /\ UNCHANGED <<fetchArgs, resp, file, gets, okGets>>
    /\ UNCHANGED <<rate, per, tokens, last_update, lock, tpc, l_now, l_new, l_tok,
                   grants>>
    /\ UNCHANGED <<importVars, cycleVars, reconVars, moreVars>>

\* except (RequestException, ConnectionError): if attempt < max_retries - 1:
\* time.sleep(1); the loop then takes the next attempt
ExceptRequest ==
    /\ spc = "failed"
    /\ IF attempt < max_retries - 1
       THEN /\ sleeps' = sleeps + 1
            /\ now' = now + RetryDelay
       ELSE UNCHANGED <<sleeps, now>>
    /\ attempt' = attempt + 1
    /\ spc' = "attempt"
    /\ UNCHANGED <<fetchArgs, resp, file, gets, okGets>>
    /\ UNCHANGED <<rate, per, tokens, last_update, lock, tpc, l_now, l_new, l_tok,
                   grants>>
    /\ UNCHANGED <<importVars, cycleVars, reconVars, moreVars>>

\* one call save_api_data(url, save_path, headers, max_retries=, skip_if_exists=)
\* on the process-wide limiter, which earlier calls may have drained
InitFetch ==
    /\ folders = [d \in Dates |-> "none"]
    /\ deleteXml = FALSE
    /\ ImportAtRest
    /\ rate \in 1..MaxRate
    /\ per \in 1..MaxPer
    /\ tokens \in 0..(rate * per)
    /\ last_update = 0
    /\ lock = 0
    /\ now = 0
    /\ tpc = [t \in Threads |-> "idle"]
    /\ l_now = [t \in Threads |-> 0]
    /\ l_new = [t \in Threads |-> 0]
    /\ l_tok = [t \in Threads |-> 0]
    /\ grants = <<>>
    /\ spc = "start"
    /\ max_retries \in 1..MaxRetries
    /\ skip_if_exists \in BOOLEAN
    /\ attempt = 0
    /\ resp = "none"
    /\ file0 \in {"absent", "old"}
    /\ file = file0
    /\ gets = 0
    /\ okGets = 0
    /\ sleeps = 0
    /\ CycleAtRest
    /\ ReconAtRest
    /\ MoreAtRest

NextFetch ==
    \/ SkipIfExists
    \/ ForAttempt
    \/ AcquireStep(Fetcher)
    \/ RequestsGet
    \/ OpenForWrite
    \/ ParseAndWrite
    \/ ExceptRequest

SpecFetch == InitFetch /\ [][NextFetch]_vars

Ended == spc \in {"returned", "raised"}

\* C9: at most max_retries GETs; one token acquired immediately before each
\* GET; nothing is requested after the first GET that succeeds, and a call that
\* returns after it has written the file; time.sleep(1) only between two
\* attempts, never after the last.
C9_BoundedRetry ==
    /\ gets <= max_retries
    /\ Len(grants) \in {gets, gets + 1}
    /\ (spc # "acquiring") => Len(grants) = gets
    /\ okGets <= 1
    /\ okGets = 1 => spc \in {"open", "write", "returned", "raised"}
    /\ (okGets = 1 /\ spc = "returned") => file = "complete"
    /\ sleeps \in {gets - 1, gets}
    /\ (sleeps = gets /\ gets > 0) => (spc \in {"attempt", "acquiring"} /\ attempt < max_retries)
    /\ (Ended /\ gets > 0) => sleeps = gets - 1

\* C9 witness: the first attempt failed, the second succeeded and wrote the file.
C9_Witness ==
    /\ spc = "returned"
    /\ gets = 2
    /\ okGets = 1
    /\ sleeps = 1
    /\ file = "complete"

\* C10: a call that ends otherwise than with a completed fetch-and-write
\* returns without raising and leaves the destination file as it was, so an
\* existing destination file holds a complete response.
C10_FailureLeavesFileUntouched ==
    /\ (Ended /\ file # "complete") => (spc = "returned" /\ file = file0)
    /\ Ended => file \in {"absent", "old", "complete"}

\* C11: a call with skip_if_exists whose target file exists returns without
\* a request, without taking a token and without touching the file; a call
\* without the option requests even though the file exists.
C11_SkipIfExists ==
    /\ (skip_if_exists /\ file0 # "absent")
          => /\ spc \in {"start", "returned"}
             /\ gets = 0
             /\ grants = <<>>
             /\ tpc[Fetcher] = "idle"
             /\ file = file0
    /\ (~skip_if_exists /\ file0 # "absent" /\ Ended) => gets >= 1

C11_Witness ==
    /\ skip_if_exists
    /\ file0 = "old"
    /\ spc = "returned"
    /\ gets = 0

\* ------------------------------------------------------------ fetch_data
\* The ways one save_api_data call ends, as the one-call model above has them:
\* "skipped" by the skip test, "saved" after a GET whose body parsed, "failed"
\* when every attempt raised a RequestException, "raised" when parseString threw.
SaveApiData(skip, exists) ==
    IF skip /\ exists THEN {"skipped"} ELSE {"saved", "failed", "raised"}

cycleHist == <<issuedFchg, issuedPlan, outcome, written>>

\* fetch_data up to the first loop: folder made, eva_list read
CycleStart ==
    /\ cpc = "none"
    /\ cpc' = "fchg"
    /\ ceva' = 1
    /\ UNCHANGED <<chour, cycleHist>>
    /\ UNCHANGED <<importVars, limiterVars, fetchVars, reconVars, moreVars>>

\* for eva in eva_list: save_api_data(fchg url, ..._fchg_HH.xml, prettify=False)
FetchFchg ==
    /\ cpc = "fchg"
    /\ \E o \in SaveApiData(FALSE, FALSE) :
         /\ outcome' = o
         /\ issuedFchg' = [issuedFchg EXCEPT ![ceva] = @ + 1]
         /\ written' = IF o = "saved" THEN written + 1 ELSE written
         /\ IF o = "raised"
            THEN cpc' = "raised" /\ UNCHANGED <<ceva, chour>>
            ELSE IF ceva < NumStations
            THEN ceva' = ceva + 1 /\ UNCHANGED <<cpc, chour>>
            ELSE cpc' = "plan" /\ ceva' = 1 /\ chour' = 0
    /\ UNCHANGED issuedPlan
    /\ UNCHANGED <<importVars, limiterVars, fetchVars, reconVars, moreVars>>

\* for eva in eva_list: for hour in range(curent_hour, curent_hour + 6):
\*     save_api_data(plan url, ..._plan_HH.xml, skip_if_exists=True)
FetchPlan ==
    /\ cpc = "plan"
    /\ \E exists \in BOOLEAN : \E o \in SaveApiData(TRUE, exists) :
         /\ outcome' = o
         /\ issuedPlan' = [issuedPlan EXCEPT ![ceva] = @ + 1]
         /\ written' = IF o = "saved" THEN written + 1 ELSE written
         /\ IF o = "raised"
            THEN cpc' = "raised" /\ UNCHANGED <<ceva, chour>>
            ELSE IF chour < PlanHours - 1
            THEN chour' = chour + 1 /\ UNCHANGED <<cpc, ceva>>
            ELSE IF ceva < NumStations
            THEN ceva' = ceva + 1 /\ chour' = 0 /\ UNCHANGED cpc
            ELSE cpc' = "done" /\ UNCHANGED <<ceva, chour>>
    /\ UNCHANGED issuedFchg
    /\ UNCHANGED <<importVars, limiterVars, fetchVars, reconVars, moreVars>>

InitCycle ==
    /\ folders = [d \in Dates |-> "none"]
    /\ deleteXml = FALSE
    /\ ImportAtRest
    /\ LimiterInit(1, 1)
    /\ FetchAtRest
    /\ CycleAtRest
    /\ ReconAtRest
    /\ MoreAtRest

NextCycle ==
    \/ CycleStart
    \/ FetchFchg
    \/ FetchPlan

SpecCycle == InitCycle /\ [][NextCycle]_vars

\* C12: when a fetch cycle is over, every station of the EVA list has had one
\* change-snapshot fetch and six plan-snapshot fetches issued, however the
\* earlier fetches of the cycle ended.
C12_EveryFetchIssued ==
    cpc \in {"done", "raised"}
        => \A e \in Stations : issuedFchg[e] = 1 /\ issuedPlan[e] = PlanHours

\* ------------------------------------------- one date folder, its contents
\* An XML attribute is a set: {} when the element or the attribute is missing
\* (Python None), {x} when it carries the text x.  Texts are integers: a
\* timestamp text in %y%m%d%H%M form is its minute count (>= 0), a text that is
\* not in the expected form is negative.  NaT and NaN are {} as well.
None == {}
NaT == {}

\* stop ids "<ride>-<num>"; num < 0 stands for a last part that is not an integer
Ids == {[ride |-> "a", num |-> 1], [ride |-> "b", num |-> 2]}
BadId == [ride |-> "c", num |-> -1]

ArPtTexts == {None, {-1}, {10}}
DpPtTexts == {None, {20}}
ArCtTexts == {None, {13}}
DpCtTexts == {None, {27}}
CltTexts == {None, {5}}

\* <s> elements of a plan file
\* (all of one regional train: tl c="RE" n="7", ar l="1", no dp l)
PlanStops ==
    [id : Ids, ar_pt : ArPtTexts, dp_pt : DpPtTexts,
     tl_c : {{"RE"}}, tl_n : {{"7"}}, ar_l : {{"1"}}, dp_l : {None}]
        \cup {[id |-> BadId, ar_pt |-> {10}, dp_pt |-> {20},
                tl_c |-> {"RE"}, tl_n |-> {"7"}, ar_l |-> {"1"}, dp_l |-> None]}

\* <s> elements of an fchg file (clt on one element at most, to keep the set small)
FchgStops ==
    {s \in [id : Ids, ar_ct : ArCtTexts, dp_ct : DpCtTexts,
            ar_clt : CltTexts, dp_clt : CltTexts] :
        s.ar_clt = None \/ s.dp_clt = None}

\* a file is well-formed XML with a sequence of <s> elements, or it is not
NotWellFormed == [wf |-> FALSE, stops |-> <<>>]
FileOf(stops) == [wf |-> TRUE, stops |-> stops]

PlanContents == {NotWellFormed, FileOf(<<>>)} \cup {FileOf(<<s>>) : s \in PlanStops}
FchgContents == {NotWellFormed, FileOf(<<>>)} \cup {FileOf(<<s>>) : s \in FchgStops}

\* hours at which the folder's files were fetched
FileHours == {9, 10}

\* the file name f"{eva}_{kind}_{hour:02}.xml" as its characters that matter:
\* the kind ("fchg" is 1, "plan" is 2) and the two digits of the hour
Name(kind, hour) == <<kind, hour \div 10, hour % 10>>

\* str.__lt__: the first differing character decides, a proper prefix is less
LexLess(a, b) ==
    \E i \in 1..(Len(b)) :
        /\ \A j \in 1..(i - 1) : j <= Len(a) /\ a[j] = b[j]
        /\ (i > Len(a) \/ a[i] < b[i])

\* sorted(date_folder_path.iterdir()) restricted to the names in S
RECURSIVE Sorted(_)
Sorted(S) ==
    IF S = {} THEN <<>>
    ELSE LET m == CHOOSE x \in S : \A y \in S \ {x} : LexLess(x, y)
         IN <<m>> \o Sorted(S \ {m})

\* --------------------------------------------- get_plan_db, get_fchg_db
\* a call returns a value or ends with an exception
Ok(v) == [exc |-> "", val |-> v]
Exc(e) == [exc |-> e, val |-> <<>>]

\* pd.to_datetime(text, format="%y%m%d%H%M", errors="coerce")
ToDatetime(text) == {x \in text : x >= 0}

\* str() of an attribute inside an f-string: the text, "None" for None
Str(a) == IF a = None THEN "None" ELSE CHOOSE x \in a : TRUE

\* train_name with the line numbers tried before the train type
TrainNameLineFirst(s) ==
    IF s.ar_l # None THEN {Str(s.tl_c) \o " " \o Str(s.ar_l)}
    ELSE IF s.dp_l # None THEN {Str(s.tl_c) \o " " \o Str(s.dp_l)}
    ELSE IF s.tl_c \cap {"IC", "ICE", "EC"} # {}
    THEN {Str(s.tl_c) \o " " \o Str(s.tl_n)}
    ELSE s.tl_c

\* train_name of get_plan_xml_rows, lines 41-49
TrainName(s) ==
    IF s.tl_c \cap {"IC", "ICE", "EC"} # {}
    THEN {Str(s.tl_c) \o " " \o Str(s.tl_n)}
    ELSE IF s.ar_l # None THEN {Str(s.tl_c) \o " " \o Str(s.ar_l)}
    ELSE IF s.dp_l # None THEN {Str(s.tl_c) \o " " \o Str(s.dp_l)}
    ELSE s.tl_c

\* one row of get_plan_xml_rows; int(s_id_split[-1]) needs an integer last part
PlanRow(s) ==
    [id |-> s.id,
     train_name |-> TrainName(s),
     train_type |-> s.tl_c,
     train_line_ride_id |-> s.id.ride,
     train_line_station_num |-> s.id.num,
     arrival_planned_time |-> s.ar_pt,
     departure_planned_time |-> s.dp_pt]

\* get_plan_xml_rows: ET.parse, then one row per <s>
GetPlanXmlRows(content) ==
    IF ~content.wf THEN Exc("ParseError")
    ELSE IF \E i \in 1..Len(content.stops) : content.stops[i].id.num < 0
    THEN Exc("ValueError")
    ELSE Ok([i \in 1..Len(content.stops) |-> PlanRow(content.stops[i])])

\* rows.extend(...) over the names in order; the first exception ends the loop
RECURSIVE ExtendRows(_, _, _)
ExtendRows(files, names, acc) ==
    IF names = <<>> THEN Ok(acc)
    ELSE LET r == GetPlanXmlRows(files[Head(names)])
         IN IF r.exc # "" THEN r
            ELSE ExtendRows(files, Tail(names), acc \o r.val)

\* a deduplication that keeps the first row of every id
RECURSIVE DropDuplicatesFirstOfId(_)
DropDuplicatesFirstOfId(rs) ==
    IF rs = <<>> THEN <<>>
    ELSE LET front == DropDuplicatesFirstOfId(SubSeq(rs, 1, Len(rs) - 1))
             last == rs[Len(rs)]
         IN IF \E i \in 1..Len(front) : front[i].id = last.id THEN front
            ELSE Append(front, last)

\* DataFrame.drop_duplicates(): a row equal to an earlier row is dropped
RECURSIVE DropDuplicates(_)
DropDuplicates(rs) ==
    IF rs = <<>> THEN <<>>
    ELSE LET front == DropDuplicates(SubSeq(rs, 1, Len(rs) - 1))
             last == rs[Len(rs)]
         IN IF \E i \in 1..Len(front) : front[i] = last THEN front
            ELSE Append(front, last)

\* get_plan_db: a frame built from no row has no column, out_df[...] raises
GetPlanDb(files) ==
    LET r == ExtendRows(files, Sorted(DOMAIN files), <<>>)
    IN IF r.exc # "" THEN r
       ELSE IF r.val = <<>> THEN Exc("KeyError")
       ELSE Ok(DropDuplicates(
                [i \in 1..Len(r.val) |->
                    [r.val[i] EXCEPT
                        !.arrival_planned_time = ToDatetime(@),
                        !.departure_planned_time = ToDatetime(@)]]))

\* id_to_data[k] = v on a dict
Put(acc, k, v) == [x \in DOMAIN acc \cup {k} |-> IF x = k THEN v ELSE acc[x]]

\* is_canceled of get_fchg_xml_rows
IsCanceled(s) == ~(s.ar_clt = None /\ s.dp_clt = None)

\* the entry with the fields it has none of taken from the record already held
FoldStopFieldwise(acc, s) ==
    IF s.ar_ct = None /\ s.dp_ct = None /\ ~IsCanceled(s) THEN acc
    ELSE Put(acc, s.id,
             [id |-> s.id,
              arrival_change_time |->
                  IF s.ar_ct = None /\ s.id \in DOMAIN acc
                  THEN acc[s.id].arrival_change_time ELSE s.ar_ct,
              departure_change_time |->
                  IF s.dp_ct = None /\ s.id \in DOMAIN acc
                  THEN acc[s.id].departure_change_time ELSE s.dp_ct,
              is_canceled |->
                  IsCanceled(s) \/ (s.id \in DOMAIN acc /\ acc[s.id].is_canceled)])

\* the loop body without the skip: every entry overwrites
FoldStopNoSkip(acc, s) ==
    Put(acc, s.id,
        [id |-> s.id,
         arrival_change_time |-> s.ar_ct,
         departure_change_time |-> s.dp_ct,
         is_canceled |-> IsCanceled(s)])

\* the body of get_fchg_xml_rows' loop: skip an entry without information,
\* otherwise overwrite older data with new data
FoldStop(acc, s) ==
    IF s.ar_ct = None /\ s.dp_ct = None /\ ~IsCanceled(s) THEN acc
    ELSE Put(acc, s.id,
             [id |-> s.id,
              arrival_change_time |-> s.ar_ct,
              departure_change_time |-> s.dp_ct,
              is_canceled |-> IsCanceled(s)])

RECURSIVE FoldStops(_, _)
FoldStops(acc, stops) ==
    IF stops = <<>> THEN acc
    ELSE FoldStops(FoldStop(acc, Head(stops)), Tail(stops))

\* get_fchg_xml_rows: ET.parse, then the loop over the <s> elements
GetFchgXmlRows(content, acc) ==
    IF ~content.wf THEN Exc("ParseError") ELSE Ok(FoldStops(acc, content.stops))

\* get_fchg_db's loop over the names in order
RECURSIVE FoldFiles(_, _, _)
FoldFiles(files, names, acc) ==
    IF names = <<>> THEN Ok(acc)
    ELSE LET r == GetFchgXmlRows(files[Head(names)], acc)
         IN IF r.exc # "" THEN r
            ELSE FoldFiles(files, Tail(names), r.val)

\* the accumulator after all fchg files of the folder
IdToData(files) == FoldFiles(files, Sorted(DOMAIN files), <<>>)

\* get_fchg_db: a frame built from no record has no column, out_df[...] raises
GetFchgDb(files) ==
    LET r == IdToData(files)
    IN IF r.exc # "" THEN r
       ELSE IF DOMAIN r.val = {} THEN Exc("KeyError")
       ELSE Ok([k \in DOMAIN r.val |->
                   [r.val[k] EXCEPT
                       !.arrival_change_time = ToDatetime(@),
                       !.departure_change_time = ToDatetime(@)]])

\* ------------------------------------- process_date_folder, lines 186-239
\* Series.fillna(other), element-wise
FillNa(a, b) == IF a = {} THEN b ELSE a

\* (a - b).dt.total_seconds() / 60: NaN when either side is NaT
DeltaInMin(a, b) == {x - y : x \in a, y \in b}

\* pd.merge(plan_df, fchg_df, on="id", how="left"): every left row, with the
\* right row of its id if there is one (ids are unique on the right)
MergeLeft(plan, fchg) ==
    [i \in 1..Len(plan) |->
        LET l == plan[i]
            hit == l.id \in DOMAIN fchg
        IN [id |-> l.id,
            train_line_ride_id |-> l.train_line_ride_id,
            train_name |-> l.train_name,
            train_type |-> l.train_type,
            train_line_station_num |-> l.train_line_station_num,
            arrival_planned_time |-> l.arrival_planned_time,
            departure_planned_time |-> l.departure_planned_time,
            arrival_change_time |->
                IF hit THEN fchg[l.id].arrival_change_time ELSE NaT,
            departure_change_time |->
                IF hit THEN fchg[l.id].departure_change_time ELSE NaT,
            is_canceled |-> IF hit THEN {fchg[l.id].is_canceled} ELSE {}]]

\* the arrival delta first, the departure delta only where that is NaN
DelayArrivalFirst(departure_delta, arrival_delta) ==
    FillNa(arrival_delta, departure_delta)

\* df["delay_in_min"] = departure_time_delta_in_min.fillna(arrival_time_delta_in_min)
DelayInMin(departure_delta, arrival_delta) ==
    FillNa(departure_delta, arrival_delta)

\* lines 192-208 on one row; delay_in_min is still a float column, {} is NaN.
\* The row keeps its id here to name it; the code drops the column and keeps
\* train_line_ride_id and train_line_station_num, the id's two parts.
Transform(m) ==
    LET dct == FillNa(m.departure_change_time, m.departure_planned_time)
        act == FillNa(m.arrival_change_time, m.arrival_planned_time)
        departure_time_delta_in_min == DeltaInMin(dct, m.departure_planned_time)
        arrival_time_delta_in_min == DeltaInMin(act, m.arrival_planned_time)
    IN [id |-> m.id,
        train_line_ride_id |-> m.train_line_ride_id,
        train_name |-> m.train_name,
        train_type |-> m.train_type,
        train_line_station_num |-> m.train_line_station_num,
        arrival_planned_time |-> m.arrival_planned_time,
        departure_planned_time |-> m.departure_planned_time,
        arrival_change_time |-> act,
        departure_change_time |-> dct,
        is_canceled |-> IF m.is_canceled = {} THEN FALSE ELSE TRUE \in m.is_canceled,
        delay_in_min |-> DelayInMin(departure_time_delta_in_min,
                                    arrival_time_delta_in_min),
        time |-> FillNa(dct, act)]

\* .astype({"delay_in_min": "int32", ...}): a NaN cannot be cast
AsType(rs) ==
    IF \E i \in 1..Len(rs) : rs[i].delay_in_min = {} THEN Exc("IntCastingNaNError")
    ELSE Ok([i \in 1..Len(rs) |->
                [rs[i] EXCEPT !.delay_in_min = CHOOSE x \in @ : TRUE]])

\* the frame handed to bulk_insert_train_data
Reconcile(plan, fchg) ==
    LET merged == MergeLeft(plan, fchg)
    IN AsType([i \in 1..Len(merged) |-> Transform(merged[i])])

\* a date folder not yet imported: plan files of two fetch hours, no fchg
\* file at all or one of each fetch hour
InitReconcile ==
    /\ folders = [d \in Dates |-> "none"]
    /\ deleteXml = FALSE
    /\ ImportAtRest
    /\ LimiterInit(1, 1)
    /\ FetchAtRest
    /\ CycleAtRest
    /\ rpc = "plan"
    /\ planFiles \in [{Name(2, h) : h \in FileHours} -> PlanContents]
    /\ \E D \in {{}, {Name(1, h) : h \in FileHours}} :
           fchgFiles \in [D -> FchgContents]
    /\ plan_df = <<>>
    /\ fchg_df = <<>>
    /\ df = <<>>
    /\ rexc = ""
    /\ MoreAtRest

\* plan_df = get_plan_db(date_folders, alternative_station_names)
RunGetPlanDb ==
    /\ rpc = "plan"
    /\ LET r == GetPlanDb(planFiles)
       IN IF r.exc # ""
          THEN rpc' = "raised" /\ rexc' = r.exc /\ UNCHANGED plan_df
          ELSE rpc' = "fchg" /\ plan_df' = r.val /\ UNCHANGED rexc
    /\ UNCHANGED <<planFiles, fchgFiles, fchg_df, df>>
    /\ UNCHANGED <<importVars, limiterVars, fetchVars, cycleVars, moreVars>>

\* fchg_df = get_fchg_db(date_folders)
RunGetFchgDb ==
    /\ rpc = "fchg"
    /\ LET r == GetFchgDb(fchgFiles)
       IN IF r.exc # ""
          THEN rpc' = "raised" /\ rexc' = r.exc /\ UNCHANGED fchg_df
          ELSE rpc' = "merge" /\ fchg_df' = r.val /\ UNCHANGED rexc
    /\ UNCHANGED <<planFiles, fchgFiles, plan_df, df>>
    /\ UNCHANGED <<importVars, limiterVars, fetchVars, cycleVars, moreVars>>

\* df = pd.merge(...) and the transformations up to .astype(...)
RunReconcile ==
    /\ rpc = "merge"
    /\ LET r == Reconcile(plan_df, fchg_df)
       IN IF r.exc # ""
          THEN rpc' = "raised" /\ rexc' = r.exc /\ UNCHANGED df
          ELSE rpc' = "insert" /\ df' = r.val /\ UNCHANGED rexc
    /\ UNCHANGED <<planFiles, fchgFiles, plan_df, fchg_df>>
    /\ UNCHANGED <<importVars, limiterVars, fetchVars, cycleVars, moreVars>>

NextReconcile ==
    \/ RunGetPlanDb
    \/ RunGetFchgDb
    \/ RunReconcile

SpecReconcile == InitReconcile /\ [][NextReconcile]_vars

\* ------------------------------------------------ reading the folder
\* the call is over: the frame went to bulk_insert_train_data, or it raised
ReconcileEnded == rpc \in {"insert", "raised"}

\* a plan file get_plan_xml_rows cannot read, an fchg file ET.parse cannot read
PlanMalformed(c) == ~c.wf \/ \E i \in 1..Len(c.stops) : c.stops[i].id.num < 0
MalformedFiles ==
    {n \in DOMAIN planFiles : PlanMalformed(planFiles[n])}
        \cup {n \in DOMAIN fchgFiles : ~fchgFiles[n].wf}

\* the <s> elements of the folder's plan files and of its fchg files
PlanRecords == UNION {Range(planFiles[n].stops) : n \in DOMAIN planFiles}
FchgRecords == UNION {Range(fchgFiles[n].stops) : n \in DOMAIN fchgFiles}

\* an fchg entry that says something: a change time or a cancellation
Informative(s) == s.ar_ct # None \/ s.dp_ct # None \/ IsCanceled(s)

\* ids with a change record
ChangedIds == {s.id : s \in {x \in FchgRecords : Informative(x)}}

\* the ids of the rows of the frame
DfIds == {df[i].id : i \in 1..Len(df)}

\* C13: a folder with exactly one malformed file (XML not well-formed, or a
\* stop id without integer suffix) is still imported: the malformed file's
\* exception does not end the date's import.
C13_MalformedFileFailsAlone ==
    Cardinality(MalformedFiles) = 1 => rexc \notin {"ParseError", "ValueError"}

\* the informative entries for an id in the fchg file fetched at hour h
EntriesOf(h, id) ==
    {s \in Range(fchgFiles[Name(1, h)].stops) : s.id = id /\ Informative(s)}

\* the latest fetch hour whose fchg file has an informative entry for the id
LastHour(id) ==
    CHOOSE h \in FileHours :
        /\ EntriesOf(h, id) # {}
        /\ \A g \in FileHours : EntriesOf(g, id) # {} => g <= h

\* C14: once get_fchg_db has folded the fchg files, the frame holds a record
\* for exactly the ids with an informative entry, and each record has all
\* three fields from the entry of the latest fetch hour that has one for the
\* id, nothing from an earlier file.
C14_LastFileWinsEntirely ==
    rpc \in {"merge", "insert"} =>
        /\ DOMAIN fchg_df = ChangedIds
        /\ \A id \in DOMAIN fchg_df :
              \E s \in EntriesOf(LastHour(id), id) :
                  /\ fchg_df[id].arrival_change_time = ToDatetime(s.ar_ct)
                  /\ fchg_df[id].departure_change_time = ToDatetime(s.dp_ct)
                  /\ fchg_df[id].is_canceled = IsCanceled(s)

\* an id whose earlier entry has an arrival change time and a cancellation
\* and whose later entry has only a departure change time
C14_Witness ==
    /\ rpc = "merge"
    /\ \E id \in DOMAIN fchg_df :
          /\ \E s \in EntriesOf(9, id) : s.ar_ct # None /\ IsCanceled(s)
          /\ \E s \in EntriesOf(10, id) :
                s.ar_ct = None /\ s.dp_ct # None /\ ~IsCanceled(s)
          /\ fchg_df[id].arrival_change_time = NaT
          /\ ~fchg_df[id].is_canceled

\* ids of the plan records
PlanIds == {s.id : s \in PlanRecords}

\* a plan record with a planned time that parses
HasPlannedTime(s) == ToDatetime(s.ar_pt) # NaT \/ ToDatetime(s.dp_pt) # NaT

\* C15: when every file of the folder is readable and there are plan records,
\* the import hands over a frame with a row for every plan record's id, with or
\* without a matching change record, and with no row for any other id.
C15_LeftJoin ==
    (ReconcileEnded /\ MalformedFiles = {} /\ PlanIds # {})
        => rpc = "insert" /\ DfIds = PlanIds

\* C16: when every file is readable and every plan record has a planned time,
\* the import succeeds, and each row whose id has no change record has delay 0
\* and is not cancelled; the folder may have no change record at all.
C16_PlanOnlyZeroDelay ==
    (ReconcileEnded /\ MalformedFiles = {} /\ PlanIds # {}
        /\ \A s \in PlanRecords : HasPlannedTime(s))
        => /\ rpc = "insert"
           /\ \A i \in 1..Len(df) :
                 df[i].id \notin ChangedIds
                     => df[i].delay_in_min = 0 /\ ~df[i].is_canceled

\* C17: a row whose change record has a departure change time and whose plan
\* record has a departure planned time has the difference of the two as its
\* delay, whatever its arrival times are.
C17_DepartureDelay ==
    rpc = "insert" =>
        \A i \in 1..Len(df) :
            (/\ df[i].id \in DOMAIN fchg_df
             /\ fchg_df[df[i].id].departure_change_time # NaT
             /\ df[i].departure_planned_time # NaT)
                => {df[i].delay_in_min} =
                       DeltaInMin(fchg_df[df[i].id].departure_change_time,
                                  df[i].departure_planned_time)

\* a row with both changes whose arrival delta differs from its departure delta
C17_Witness ==
    /\ rpc = "insert"
    /\ \E i \in 1..Len(df) :
          /\ df[i].id \in DOMAIN fchg_df
          /\ fchg_df[df[i].id].departure_change_time # NaT
          /\ fchg_df[df[i].id].arrival_change_time # NaT
          /\ df[i].departure_planned_time # NaT
          /\ df[i].arrival_planned_time # NaT
          /\ DeltaInMin(fchg_df[df[i].id].arrival_change_time,
                        df[i].arrival_planned_time) # {df[i].delay_in_min}

\* C18: a row with both planned times whose change record has an arrival
\* change time and no departure change time has the arrival delta as its delay.
C18_ArrivalFallback ==
    rpc = "insert" =>
        \A i \in 1..Len(df) :
            (/\ df[i].id \in DOMAIN fchg_df
             /\ fchg_df[df[i].id].arrival_change_time # NaT
             /\ fchg_df[df[i].id].departure_change_time = NaT
             /\ df[i].arrival_planned_time # NaT
             /\ df[i].departure_planned_time # NaT)
                => {df[i].delay_in_min} =
                       DeltaInMin(fchg_df[df[i].id].arrival_change_time,
                                  df[i].arrival_planned_time)

\* C19: when every file is readable and there is a change record, a plan
\* record without any planned time that parses does not stop the import and
\* has a row with delay 0.
C19_UndefinedDelayKept ==
    (ReconcileEnded /\ MalformedFiles = {} /\ ChangedIds # {})
        => \A s \in PlanRecords :
               ~HasPlannedTime(s)
                   => /\ rpc = "insert"
                      /\ \E i \in 1..Len(df) :
                            /\ df[i].id = s.id
                            /\ df[i].arrival_planned_time = NaT
                            /\ df[i].departure_planned_time = NaT
                            /\ df[i].delay_in_min = 0

\* C20: the frame handed to the insert has one row per stop id.
C20_OneRowPerStopId ==
    rpc = "insert" =>
        \A i, j \in 1..Len(df) : df[i].id = df[j].id => i = j

\* the fchg files of the folder without the one fetched at hour h
FchgWithout(h) == [n \in DOMAIN fchgFiles \ {Name(1, h)} |-> fchgFiles[n]]

\* every entry of the fchg file fetched at hour h lacks ct and clt
AllEmptyEntries(h) ==
    /\ Name(1, h) \in DOMAIN fchgFiles
    /\ fchgFiles[Name(1, h)].wf
    /\ \A s \in Range(fchgFiles[Name(1, h)].stops) : ~Informative(s)

\* C25: an fchg file whose entries have neither a change time nor a
\* cancellation marker adds nothing to the accumulator and changes nothing in
\* it: the frame is the one the other files alone give, with every field of an
\* earlier record kept and no record for an id only such entries mention.
C25_EmptyEntryLeavesAccumulator ==
    rpc \in {"merge", "insert"} =>
        \A h \in FileHours :
            AllEmptyEntries(h)
                => /\ GetFchgDb(FchgWithout(h)).exc = ""
                   /\ fchg_df = GetFchgDb(FchgWithout(h)).val
                   /\ \A s \in Range(fchgFiles[Name(1, h)].stops) :
                         s.id \in DOMAIN fchg_df
                             => \E g \in FileHours : EntriesOf(g, s.id) # {}

\* C25 witness: the later file has an entry without information for an id
\* whose earlier entry had a departure change time; the record keeps it.
C25_Witness ==
    /\ rpc = "merge"
    /\ \E id \in DOMAIN fchg_df :
          /\ \E s \in EntriesOf(9, id) : s.dp_ct # None
          /\ \E s \in Range(fchgFiles[Name(1, 10)].stops) :
                s.id = id /\ ~Informative(s)
          /\ fchg_df[id].departure_change_time # NaT

\* the entry that decides an id's change record: the one of the latest file
LastEntries(id) == EntriesOf(LastHour(id), id)

\* C26: a change record is cancelled exactly when its entry has a clt on
\* arrival or departure; a stop whose entry has an arrival clt and no change
\* time is handed to the insert with is_canceled true and delay 0.
C26_CanceledFlag ==
    /\ rpc \in {"merge", "insert"} =>
          \A id \in DOMAIN fchg_df :
              \A s \in LastEntries(id) :
                  fchg_df[id].is_canceled <=> (s.ar_clt # None \/ s.dp_clt # None)
    /\ (ReconcileEnded /\ MalformedFiles = {}) =>
          \A id \in PlanIds \cap ChangedIds :
              \A s \in LastEntries(id) :
                  (s.ar_clt # None /\ s.ar_ct = None /\ s.dp_ct = None)
                      => /\ rpc = "insert"
                         /\ \A i \in 1..Len(df) :
                               df[i].id = id
                                   => df[i].is_canceled /\ df[i].delay_in_min = 0

\* ------------------------------------------------------- train names
TypeTexts == {None, {"IC"}, {"ICE"}, {"EC"}, {"RE"}, {"S"}}
NumberTexts == {None, {"123"}, {"7"}}
LineTexts == {None, {"1"}, {"2"}}

\* one stop with any train type, train number and line numbers
NamedStops ==
    [id : {[ride |-> "a", num |-> 1]}, ar_pt : {{10}}, dp_pt : {{20}},
     tl_c : TypeTexts, tl_n : NumberTexts, ar_l : LineTexts, dp_l : LineTexts]

\* a folder with one plan file of one stop and one fchg file with a departure
\* change for it
InitTrainName ==
    /\ folders = [d \in Dates |-> "none"]
    /\ deleteXml = FALSE
    /\ ImportAtRest
    /\ LimiterInit(1, 1)
    /\ FetchAtRest
    /\ CycleAtRest
    /\ rpc = "plan"
    /\ \E s \in NamedStops : planFiles = [n \in {Name(2, 9)} |-> FileOf(<<s>>)]
    /\ fchgFiles = [n \in {Name(1, 9)} |->
                       FileOf(<<[id |-> [ride |-> "a", num |-> 1], ar_ct |-> None,
                                 dp_ct |-> {27}, ar_clt |-> None, dp_clt |-> None]>>)]
    /\ plan_df = <<>>
    /\ fchg_df = <<>>
    /\ df = <<>>
    /\ rexc = ""
    /\ MoreAtRest

SpecTrainName == InitTrainName /\ [][NextReconcile]_vars

\* the one <s> element of the folder
TheStop == CHOOSE s \in PlanRecords : TRUE

\* C24: the row's train_name is "<type> <number>" for types IC, ICE and EC
\* whatever the line numbers are; for another type it is "<type> <arrival
\* line>" if there is an arrival line number, else "<type> <departure line>"
\* if there is a departure line number, else the type alone; type ICE with
\* number 123 gives "ICE 123".
C24_TrainNamePrecedence ==
    rpc \in {"fchg", "merge", "insert"} =>
        LET s == TheStop
            name == plan_df[1].train_name
            premium == s.tl_c \in {{"IC"}, {"ICE"}, {"EC"}}
        IN /\ Len(plan_df) = 1
           /\ premium => name = {Str(s.tl_c) \o " " \o Str(s.tl_n)}
           /\ (~premium /\ s.ar_l # None)
                 => name = {Str(s.tl_c) \o " " \o Str(s.ar_l)}
           /\ (~premium /\ s.ar_l = None /\ s.dp_l # None)
                 => name = {Str(s.tl_c) \o " " \o Str(s.dp_l)}
           /\ (~premium /\ s.ar_l = None /\ s.dp_l = None) => name = s.tl_c
           /\ (s.tl_c = {"ICE"} /\ s.tl_n = {"123"}) => name = {"ICE 123"}
           /\ (rpc = "insert" => df[1].train_name = name)

\* C24 witness: an ICE with line numbers on arrival and departure is named
\* by its train number.
C24_Witness ==
    /\ rpc = "insert"
    /\ TheStop.tl_c = {"ICE"}
    /\ TheStop.tl_n = {"123"}
    /\ TheStop.ar_l # None
    /\ TheStop.dp_l # None
    /\ df[1].train_name = {"ICE 123"}

\* ------------------------------------------------ order of presentation
\* stops for plan files with up to two <s> elements
FewStops ==
    {s \in PlanStops :
        /\ s.id \in Ids
        /\ <<s.ar_pt, s.dp_pt>> \in {<<{10}, {20}>>, <<None, {20}>>, <<{10}, None>>}}

FewPlanContents ==
    {NotWellFormed, FileOf(<<>>)}
        \cup {FileOf(<<s>>) : s \in FewStops}
        \cup {FileOf(<<s, t>>) : s \in FewStops, t \in FewStops}

FewFchgContents ==
    {FileOf(<<>>)}
        \cup {FileOf(<<s>>) :
                s \in {x \in FchgStops : x.id.ride = "a" /\ x.dp_clt = None}}

\* plan files of two fetch hours with up to two stops each, one fchg file
InitPermute ==
    /\ folders = [d \in Dates |-> "none"]
    /\ deleteXml = FALSE
    /\ ImportAtRest
    /\ LimiterInit(1, 1)
    /\ FetchAtRest
    /\ CycleAtRest
    /\ rpc = "plan"
    /\ planFiles \in [{Name(2, h) : h \in FileHours} -> FewPlanContents]
    /\ fchgFiles \in [{Name(1, 9)} -> FewFchgContents]
    /\ plan_df = <<>>
    /\ fchg_df = <<>>
    /\ df = <<>>
    /\ rexc = ""
    /\ MoreAtRest

SpecPermute == InitPermute /\ [][NextReconcile]_vars

\* lines 186-239 as one function of the folder
ProcessFolder(pfiles, ffiles) ==
    LET p == GetPlanDb(pfiles)
        f == GetFchgDb(ffiles)
    IN IF p.exc # "" THEN p
       ELSE IF f.exc # "" THEN f
       ELSE Reconcile(p.val, f.val)

Reverse(q) == [i \in 1..Len(q) |-> q[Len(q) + 1 - i]]

\* the folders that present the same plan stops in another order: the
\* contents of the two plan files exchanged or not, the stops of each file
\* reversed or not
Permuted ==
    {[n \in DOMAIN planFiles |->
         LET c == planFiles[IF swap THEN CHOOSE m \in DOMAIN planFiles :
                                  m # n \/ Cardinality(DOMAIN planFiles) = 1
                            ELSE n]
         IN IF n \in rev THEN [c EXCEPT !.stops = Reverse(@)] ELSE c] :
        swap \in BOOLEAN, rev \in SUBSET DOMAIN planFiles}

\* C27: whatever the order in which the plan files, or the stops inside a
\* plan file, are presented, the import hands the same set of rows to the
\* insert, and fails for one order only if it fails for every order.
C27_OrderIndependent ==
    ReconcileEnded =>
        \A g \in Permuted :
            LET r == ProcessFolder(g, fchgFiles)
            IN /\ (rpc = "insert") <=> (r.exc = "")
               /\ rpc = "insert" =>
                     /\ Range(r.val) = Range(df)
                     /\ Len(r.val) = Len(df)

\* C27 witness: one stop id is delivered in two forms, by both plan files or
\* twice within one, and both rows reach the insert.
C27_Witness ==
    /\ rpc = "insert"
    /\ Len(df) >= 3
    /\ \E i, j \in 1..Len(df) : i # j /\ df[i].id = df[j].id
    /\ \E n \in DOMAIN planFiles :
          /\ Len(planFiles[n].stops) = 2
          /\ planFiles[n].stops[1] # planFiles[n].stops[2]

\* ======================================================= get_db_connection
\* One call at a time; each psycopg2.connect call either returns a connection
\* or raises psycopg2.Error, the only exception the function catches.
InitConnect ==
    /\ folders = [d \in Dates |-> "none"]
    /\ deleteXml = FALSE
    /\ ImportAtRest
    /\ LimiterInit(1, 1)
    /\ FetchAtRest
    /\ CycleAtRest
    /\ ReconAtRest
    /\ MoreAtRest

\* get_db_connection(max_retries=n, retry_delay=d): last_exception = None
GetDbConnection(n, d) ==
    /\ UNCHANGED <<importVars, limiterVars, fetchVars, cycleVars, reconVars>>
    /\ UNCHANGED <<strayDir, runRaised, rate_den, raceVars>>
    /\ gpc \in {"none", "returned", "raised"}
    /\ gpc' = "loop"
    /\ g_max' = n
    /\ g_delay' = d
    /\ g_attempt' = 0
    /\ connects' = 0
    /\ g_sleeps' = <<>>
    /\ g_conn' = 0
    /\ g_msg' = 0

\* for attempt in range(max_retries): an exhausted range leaves the loop and
\* the function ends without a return statement
ForAttemptInRange ==
    /\ UNCHANGED <<importVars, limiterVars, fetchVars, cycleVars, reconVars>>
    /\ UNCHANGED <<strayDir, runRaised, rate_den, raceVars>>
    /\ gpc = "loop"
    /\ gpc' = IF g_attempt < g_max THEN "connect" ELSE "returned"
    /\ UNCHANGED <<g_max, g_delay, g_attempt, connects, g_sleeps, g_conn, g_msg>>

\* return psycopg2.connect(**DB_CONFIG)
ConnectReturns ==
    /\ UNCHANGED <<importVars, limiterVars, fetchVars, cycleVars, reconVars>>
    /\ UNCHANGED <<strayDir, runRaised, rate_den, raceVars>>
    /\ gpc = "connect"
    /\ connects' = connects + 1
    /\ g_conn' = connects + 1
    /\ gpc' = "returned"
    /\ UNCHANGED <<g_max, g_delay, g_attempt, g_sleeps, g_msg>>

\* except psycopg2.Error: if attempt < max_retries - 1: sleep and continue;
\* else raise Exception(f"Failed to connect ... after {max_retries} attempts")
ConnectRaises ==
    /\ UNCHANGED <<importVars, limiterVars, fetchVars, cycleVars, reconVars>>
    /\ UNCHANGED <<strayDir, runRaised, rate_den, raceVars>>
    /\ gpc = "connect"
    /\ connects' = connects + 1
    /\ IF g_attempt < g_max - 1
         THEN gpc' = "sleep" /\ g_msg' = g_msg
         ELSE gpc' = "raised" /\ g_msg' = g_max
    /\ UNCHANGED <<g_max, g_delay, g_attempt, g_sleeps, g_conn>>

\* time.sleep(retry_delay); continue
SleepRetry ==
    /\ UNCHANGED <<importVars, limiterVars, fetchVars, cycleVars, reconVars>>
    /\ UNCHANGED <<strayDir, runRaised, rate_den, raceVars>>
    /\ gpc = "sleep"
    /\ g_sleeps' = Append(g_sleeps, g_delay)
    /\ g_attempt' = g_attempt + 1
    /\ gpc' = "loop"
    /\ UNCHANGED <<g_max, g_delay, connects, g_conn, g_msg>>

NextConnect ==
    \/ \E n \in 0..MaxAttempts, d \in 1..MaxDelay : GetDbConnection(n, d)
    \/ ForAttemptInRange
    \/ ConnectReturns
    \/ ConnectRaises
    \/ SleepRetry

SpecConnect == InitConnect /\ [][NextConnect]_vars

\* C21: get_db_connection(max_retries=n, retry_delay=d) returns the first
\* connection that succeeds, after exactly k connect calls and k-1 sleeps of d
\* when call k is the first success; when all n attempts fail it raises an
\* exception naming n after exactly n connect calls; it never returns without
\* a connection.
C21_ConnectionOrException ==
    /\ gpc = "returned" =>
          /\ g_conn # 0
          /\ g_conn = connects
          /\ Len(g_sleeps) = connects - 1
          /\ \A i \in DOMAIN g_sleeps : g_sleeps[i] = g_delay
    /\ gpc = "raised" =>
          /\ g_msg = g_max
          /\ connects = g_max
          /\ g_conn = 0

\* ================================================ two import runs, one date
\* run_data_import (scheduler thread) and trigger_import (request thread) both
\* call import_data; each call opens its own connection. The store holds one
\* date folder with snapshots, not yet marked.
InitRace ==
    /\ folders = [d \in Dates |-> "none"]
    /\ deleteXml \in BOOLEAN
    /\ ImportAtRest
    /\ LimiterInit(1, 1)
    /\ FetchAtRest
    /\ CycleAtRest
    /\ ReconAtRest
    /\ strayDir = FALSE
    /\ runRaised = FALSE
    /\ rate_den = 1
    /\ ConnectAtRest
    /\ rc_pc = [r \in Runners |-> "none"]
    /\ rc_ins = [r \in Runners |-> FALSE]
    /\ rc_mark = [r \in Runners |-> FALSE]
    /\ rc_rows = 0
    /\ rc_marked = FALSE
    /\ rc_passed = {}
    /\ rc_folder = TRUE

\* import_data: conn = get_db_connection(); the date folders are listed
RunStart(r) ==
    /\ UNCHANGED <<importVars, limiterVars, fetchVars, cycleVars, reconVars>>
    /\ UNCHANGED <<strayDir, runRaised, rate_den, connectVars>>
    /\ rc_pc[r] \in {"none", "done", "failed"}
    /\ rc_pc' = [rc_pc EXCEPT ![r] = IF rc_folder THEN "guard" ELSE "done"]
    /\ UNCHANGED <<rc_ins, rc_mark, rc_rows, rc_marked, rc_passed, rc_folder>>

\* if is_date_processed(conn, date_str): a SELECT that sees committed markers
RunGuard(r) ==
    /\ UNCHANGED <<importVars, limiterVars, fetchVars, cycleVars, reconVars>>
    /\ UNCHANGED <<strayDir, runRaised, rate_den, connectVars>>
    /\ rc_pc[r] = "guard"
    /\ IF rc_marked
         THEN /\ rc_pc' = [rc_pc EXCEPT ![r] = "cleanup"]
              /\ rc_passed' = rc_passed
         ELSE /\ rc_pc' = [rc_pc EXCEPT ![r] = "parse"]
              /\ rc_passed' = rc_passed \cup {r}
    /\ UNCHANGED <<rc_ins, rc_mark, rc_rows, rc_marked, rc_folder>>

\* get_plan_db ... astype: iterdir raises when the folder is gone
RunParse(r) ==
    /\ UNCHANGED <<importVars, limiterVars, fetchVars, cycleVars, reconVars>>
    /\ UNCHANGED <<strayDir, runRaised, rate_den, connectVars>>
    /\ rc_pc[r] = "parse"
    /\ rc_pc' = [rc_pc EXCEPT ![r] = IF rc_folder THEN "insertExec" ELSE "failed"]
    /\ UNCHANGED <<rc_ins, rc_mark, rc_rows, rc_marked, rc_passed, rc_folder>>

\* bulk_insert_train_data: execute_values on the run's own connection
RunInsertExecute(r) ==
    /\ UNCHANGED <<importVars, limiterVars, fetchVars, cycleVars, reconVars>>
    /\ UNCHANGED <<strayDir, runRaised, rate_den, connectVars>>
    /\ rc_pc[r] = "insertExec"
    /\ rc_ins' = [rc_ins EXCEPT ![r] = TRUE]
    /\ rc_pc' = [rc_pc EXCEPT ![r] = "insertCommit"]
    /\ UNCHANGED <<rc_mark, rc_rows, rc_marked, rc_passed, rc_folder>>

\* bulk_insert_train_data: conn.commit()
RunInsertCommit(r) ==
    /\ UNCHANGED <<importVars, limiterVars, fetchVars, cycleVars, reconVars>>
    /\ UNCHANGED <<strayDir, runRaised, rate_den, connectVars>>
    /\ rc_pc[r] = "insertCommit"
    /\ rc_rows' = IF rc_ins[r] THEN rc_rows + 1 ELSE rc_rows
    /\ rc_ins' = [rc_ins EXCEPT ![r] = FALSE]
    /\ rc_pc' = [rc_pc EXCEPT ![r] = "markExec"]
    /\ UNCHANGED <<rc_mark, rc_marked, rc_passed, rc_folder>>

\* mark_date_as_processed: INSERT ... ON CONFLICT (date) DO NOTHING; it waits
\* while another transaction holds an uncommitted marker of the date
RunMarkExecute(r) ==
    /\ UNCHANGED <<importVars, limiterVars, fetchVars, cycleVars, reconVars>>
    /\ UNCHANGED <<strayDir, runRaised, rate_den, connectVars>>
    /\ rc_pc[r] = "markExec"
    /\ \A o \in Runners \ {r} : ~rc_mark[o]
    /\ rc_mark' = [rc_mark EXCEPT ![r] = ~rc_marked]
    /\ rc_pc' = [rc_pc EXCEPT ![r] = "markCommit"]
    /\ UNCHANGED <<rc_ins, rc_rows, rc_marked, rc_passed, rc_folder>>

\* mark_date_as_processed: conn.commit()
RunMarkCommit(r) ==
    /\ UNCHANGED <<importVars, limiterVars, fetchVars, cycleVars, reconVars>>
    /\ UNCHANGED <<strayDir, runRaised, rate_den, connectVars>>
    /\ rc_pc[r] = "markCommit"
    /\ rc_marked' = (rc_marked \/ rc_mark[r])
    /\ rc_mark' = [rc_mark EXCEPT ![r] = FALSE]
    /\ rc_pc' = [rc_pc EXCEPT ![r] = "cleanup"]
    /\ UNCHANGED <<rc_ins, rc_rows, rc_passed, rc_folder>>

\* delete_date_folder; return; the loop ends; finally: conn.close()
RunDeleteFolder(r) ==
    /\ UNCHANGED <<importVars, limiterVars, fetchVars, cycleVars, reconVars>>
    /\ UNCHANGED <<strayDir, runRaised, rate_den, connectVars>>
    /\ rc_pc[r] = "cleanup"
    /\ IF deleteXml
         THEN rc_folder' \in {FALSE, rc_folder}
         ELSE rc_folder' = rc_folder
    /\ rc_pc' = [rc_pc EXCEPT ![r] = "done"]
    /\ UNCHANGED <<rc_ins, rc_mark, rc_rows, rc_marked, rc_passed>>

NextRace ==
    \E r \in Runners :
        \/ RunStart(r)
        \/ RunGuard(r)
        \/ RunParse(r)
        \/ RunInsertExecute(r)
        \/ RunInsertCommit(r)
        \/ RunMarkExecute(r)
        \/ RunMarkCommit(r)
        \/ RunDeleteFolder(r)

SpecRace == InitRace /\ [][NextRace]_vars

\* C28: when two import runs interleave on the same unmarked date, the date's
\* rows are bulk-inserted at most once: never do both runs pass the
\* processed-date guard and both commit an insert for the date.
C28_AtMostOneInsert ==
    rc_rows <= 1

====
